---- MODULE Spec2Model ----
(***************************************************************************)
(* A model of the prettyprint header (src/src/include/prettyprint.h): the  *)
(* compile-time classifier stringifier_tag, the stringifier_select         *)
(* specialisations and the step-by-step traversal of output_iterable.      *)
(*                                                                         *)
(* A type is a record [k, c, attrs, args]: k the kind of type, c whether   *)
(* it is const-qualified (prettyprint removes only the reference, so the   *)
(* const stays), attrs the properties the SFINAE detectors see, args the   *)
(* template arguments.  A value is a record [t, n, s, xs]: its type, its   *)
(* number (integers, bools as 0/1, enumerators), its characters and its    *)
(* elements or members.  Text written to the stream is a string.           *)
(***************************************************************************)
EXTENDS Integers, Sequences, FiniteSets, TLC

\* ---------------------------------------------------------------------------
\* Bounds of the model
MaxInt == 2
MaxEnum == 2
MaxLen == 2
MaxArity == 2
MaxOverrun == 2

\* ---------------------------------------------------------------------------
\* Text helpers: what operator<< of the standard library writes

Digit == <<"0", "1", "2", "3", "4", "5", "6", "7", "8", "9">>

\* operator<<(int): decimal digits
RECURSIVE ToDec(_)
ToDec(n) ==
  IF n < 10 THEN Digit[n + 1] ELSE ToDec(n \div 10) \o Digit[(n % 10) + 1]

\* operator<<(char): the single character with that code, not its digits
CharOf(n) ==
  CASE n = 65 -> "A"
    [] n = 66 -> "B"
    [] OTHER -> "\\x" \o ToDec(n)

\* operator<<(bool) on a stream without boolalpha
BoolDigit(n) == IF n # 0 THEN "1" ELSE "0"

\* ---------------------------------------------------------------------------
\* Types

Ty(k, c, attrs, args) == [k |-> k, c |-> c, attrs |-> attrs, args |-> args]
Plain(k) == Ty(k, FALSE, {}, <<>>)
Const(T) == [T EXCEPT !.c = TRUE]

IntT == Plain("int")
BoolT == Plain("bool")
StringT == Plain("string")
ConstCharPtrT == Ty("charptr", FALSE, {"pointee_const"}, <<>>)
PairIntIntT == Ty("pair", FALSE, {}, <<IntT, IntT>>)
VectorIntT == Ty("vector", FALSE, {}, <<IntT>>)

\* ---------------------------------------------------------------------------
\* SFINAE detectors and type traits

has_begin(T) == T.k \in {"vector", "deque", "string"}
has_end(T) == T.k \in {"vector", "deque", "string"}

is_iterable(T) == has_begin(T) /\ has_end(T)

\* The partial specialisations name std::pair<T,U> and std::tuple<Ts...>
\* themselves: a const-qualified pair or tuple is a different type and
\* falls to the primary template.
is_pair(T) == T.k = "pair" /\ ~T.c
is_tuple(T) == T.k = "tuple" /\ ~T.c

\* &T::operator() is well formed only for a class with one, non-template,
\* call operator; std::function has one, the result of std::bind has
\* overloaded templates.
has_call_operator(T) ==
  \/ T.k = "std_function"
  \/ T.k = "class" /\ "call" \in T.attrs

is_std_function(T) == T.k = "std_function" /\ ~T.c

std_is_function(T) == T.k = "function"

\* true for the result of std::bind, const or not, and for a class the
\* program specialises std::is_bind_expression for
std_is_bind_expression(T) ==
  \/ T.k = "bind"
  \/ T.k = "class" /\ "bindspec" \in T.attrs

is_callable(T) ==
  \/ has_call_operator(T)
  \/ is_std_function(T)
  \/ std_is_function(T)
  \/ std_is_bind_expression(T)

\* std::cout << std::declval<T>() is well formed
has_operator_output(T) ==
  CASE T.k \in {"int", "bool", "string", "charptr", "chararr", "array",
                "array_unknown", "function", "funcptr"} -> TRUE
    [] T.k = "wchar" -> "lib_deleted" \notin T.attrs
    [] T.k = "nullptr_t" -> "lib_out" \in T.attrs
    [] T.k = "enum" -> "userout" \in T.attrs \/ "scoped" \notin T.attrs
    [] T.k = "class" -> "userout" \in T.attrs \/ "boolconv" \in T.attrs
    [] T.k \in {"vector", "deque"} -> "userout" \in T.attrs
    [] OTHER -> FALSE

\* bool_conversion_test(std::declval<T>()) is well formed
has_bool_conversion(T) ==
  CASE T.k \in {"int", "bool", "wchar", "charptr", "chararr", "array",
                "array_unknown", "function", "funcptr"} -> TRUE
    [] T.k = "enum" -> "scoped" \notin T.attrs
    [] T.k = "class" -> "boolconv" \in T.attrs
    [] OTHER -> FALSE

\* is_outputtable without the test for a call operator with a conversion
\* to bool (a variant used to check the properties below)
is_outputtable_no_bool_test(T) ==
  /\ has_operator_output(T)
  /\ ~std_is_function(T)

is_outputtable(T) ==
  /\ has_operator_output(T)
  /\ ~std_is_function(T)
  /\ ~(has_call_operator(T) /\ has_bool_conversion(T))

std_is_enum(T) == T.k = "enum"
std_is_union(T) == T.k = "union"
std_is_class(T) ==
  T.k \in {"class", "std_function", "bind", "string", "vector", "deque",
           "pair", "tuple"}
std_is_null_pointer(T) == T.k = "nullptr_t"

is_unprintable(T) ==
  std_is_union(T) \/ std_is_class(T) \/ std_is_null_pointer(T)

\* The callable_type overloads whose enable_if condition holds for T
callable_type(T) ==
  {x \in {"(std::function)", "(function)", "(bind expression)",
          "(function object)"} :
     \/ x = "(std::function)" /\ is_std_function(T)
     \/ x = "(function)" /\ std_is_function(T)
     \/ x = "(bind expression)" /\ std_is_bind_expression(T)
     \/ x = "(function object)" /\ ~is_std_function(T) /\ has_call_operator(T)}

\* The unprintable_type overloads whose enable_if condition holds for T
unprintable_type(T) ==
  {x \in {"<union>", "<class>", "<nullptr>"} :
     \/ x = "<union>" /\ std_is_union(T)
     \/ x = "<class>" /\ std_is_class(T)
     \/ x = "<nullptr>" /\ std_is_null_pointer(T)}

\* ---------------------------------------------------------------------------
\* The classifier: the way a type is treated, in preference order

\* stringifier_tag with is_iterable tested before is_outputtable (a variant
\* used to check the properties below)
stringifier_tag_iterable_first(T) ==
  IF is_iterable(T) THEN "is_iterable_tag"
  ELSE IF is_outputtable(T) THEN "is_outputtable_tag"
  ELSE IF is_callable(T) THEN "is_callable_tag"
  ELSE IF is_pair(T) THEN "is_pair_tag"
  ELSE IF is_tuple(T) THEN "is_tuple_tag"
  ELSE IF std_is_enum(T) THEN "is_enum_tag"
  ELSE IF is_unprintable(T) THEN "is_unprintable_tag"
  ELSE "void"

stringifier_tag(T) ==
  IF is_outputtable(T) THEN "is_outputtable_tag"
  ELSE IF is_callable(T) THEN "is_callable_tag"
  ELSE IF is_iterable(T) THEN "is_iterable_tag"
  ELSE IF is_pair(T) THEN "is_pair_tag"
  ELSE IF is_tuple(T) THEN "is_tuple_tag"
  ELSE IF std_is_enum(T) THEN "is_enum_tag"
  ELSE IF is_unprintable(T) THEN "is_unprintable_tag"
  ELSE "void"

\* The specialisation of stringifier_select that T and its tag pick.  The
\* specialisations for std::basic_string and bool name the unqualified
\* type; the four char pointer varieties and both char arrays are listed.
stringifier_select(T, TAG) ==
  IF TAG = "is_outputtable_tag" THEN
    CASE T.k = "string" /\ ~T.c -> "basic_string"
      [] T.k = "charptr" -> "char*"
      [] T.k = "chararr" -> "char[N]"
      [] T.k = "array" -> "T[N]"
      [] T.k = "bool" /\ ~T.c -> "bool"
      [] OTHER -> "outputtable"
  ELSE
    CASE TAG = "is_iterable_tag" -> "iterable"
      [] TAG = "is_callable_tag" -> "callable"
      [] TAG = "is_unprintable_tag" -> "unprintable"
      [] TAG = "is_enum_tag" -> "enum"
      [] TAG = "is_pair_tag" -> "pair"
      [] TAG = "is_tuple_tag" -> "tuple"
      [] OTHER -> "default"

stringifier(T) == stringifier_select(T, stringifier_tag(T))

\* output() of the selected specialisation compiles: the call of
\* callable_type<T>() or unprintable_type<T>() finds exactly one overload.
Instantiates(T) ==
  CASE stringifier(T) = "callable" -> Cardinality(callable_type(T)) = 1
    [] stringifier(T) = "unprintable" -> Cardinality(unprintable_type(T)) = 1
    [] OTHER -> TRUE

\* ---------------------------------------------------------------------------
\* Customization points for printing iterable things (including arrays)

\* The specialisations of the three templates the program declares, all for
\* one type: custom.k, custom.c and custom.args name it (k = "" for none,
\* args = <<>> for a partial specialisation over the element type), and
\* opener, closer and separator are the tokens ("" where the primary
\* template is left in place)
VARIABLE custom

Customization(k, c, args, o, cl, sep) ==
  [k |-> k, c |-> c, args |-> args,
   opener |-> o, closer |-> cl, separator |-> sep]

\* None; > and > for deque<T>; ; as the separator of vector<T>; [ and ] for
\* the arrays int[N]
Customizations ==
  {Customization("", FALSE, <<>>, "", "", ""),
   Customization("deque", FALSE, <<>>, ">", ">", ""),
   Customization("vector", FALSE, <<>>, "", "", ";"),
   Customization("array", FALSE, <<IntT>>, "[", "]", "")}

\* A specialisation is chosen for the very type the template is named
\* with, qualifiers included
Specialised(T) ==
  /\ custom.k = T.k
  /\ custom.c = T.c
  /\ custom.args \in {<<>>, T.args}

iterable_opener(T) ==
  IF Specialised(T) /\ custom.opener # "" THEN custom.opener ELSE "{"
iterable_closer(T) ==
  IF Specialised(T) /\ custom.closer # "" THEN custom.closer ELSE "}"
iterable_separator(T) ==
  IF Specialised(T) /\ custom.separator # "" THEN custom.separator ELSE ","

\* std::decay_t of a class type
decay_t(T) == [T EXCEPT !.c = FALSE]

\* output_iterable instantiated with T as it is (a variant used to check
\* the properties below)
iterable_arg_no_decay(T) == T

\* The type output_iterable is instantiated with: std::decay_t<T> by the
\* specialisation for iterable types, T[N] as it is by the one for arrays
iterable_arg(T) == IF T.k = "array" THEN T ELSE decay_t(T)

\* ---------------------------------------------------------------------------
\* Values

Val(T, n, s, xs) == [t |-> T, n |-> n, s |-> s, xs |-> xs]

\* The value as reached through a reference to const (an element through a
\* const container, a member of a const pair or tuple)
AsConst(v) == [v EXCEPT !.t = Const(v.t)]

\* What the type's own operator<< writes (s << m_t)
NativeText(v) ==
  CASE v.t.k = "int" -> ToDec(v.n)
    [] v.t.k = "wchar" -> ToDec(v.n)
    [] v.t.k = "bool" -> BoolDigit(v.n)
    [] v.t.k \in {"string", "charptr", "chararr"} -> v.s
    [] v.t.k = "funcptr" -> BoolDigit(v.n)
    [] v.t.k = "nullptr_t" -> "nullptr"
    [] v.t.k \in {"array", "array_unknown"} -> "0x7ffd" \o ToDec(v.n)
    [] v.t.k = "enum" ->
         IF "userout" \in v.t.attrs THEN "Quux::" \o ToDec(v.n)
         ELSE IF "char" \in v.t.attrs THEN CharOf(v.n)
         ELSE ToDec(v.n)
    [] v.t.k = "class" ->
         IF "userout" \in v.t.attrs THEN "Baz" ELSE BoolDigit(v.n)
    [] v.t.k \in {"vector", "deque"} -> "Vec"
    [] OTHER -> "<no operator<<>"

\* static_cast<std::underlying_type_t<T>>(m_t) written to the stream
UnderlyingText(v) ==
  IF "char" \in v.t.attrs THEN CharOf(v.n) ELSE ToDec(v.n)

\* ---------------------------------------------------------------------------
\* output() of each specialisation, as the text it writes

output_default(v) == "<unknown>"

output_outputtable(v) == NativeText(v)

output_basic_string(v) == "\"" \o v.s \o "\""

output_char_pointer(v) == "\"" \o v.s \o "\""

output_char_array(v) == "\"" \o v.s \o "\""

output_bool(v) == IF v.n # 0 THEN "true" ELSE "false"

output_callable(v) ==
  "<callable " \o (CHOOSE x \in callable_type(v.t) : TRUE) \o ">"

output_unprintable(v) == CHOOSE x \in unprintable_type(v.t) : TRUE

output_enum(v) == UnderlyingText(v)

RECURSIVE prettyprint(_)

\* s << '(' << prettyprint(m_t.first) << ',' << prettyprint(m_t.second) << ')'
\* with m_t a reference to const
output_pair(v) ==
  "(" \o prettyprint(AsConst(v.xs[1])) \o "," \o prettyprint(AsConst(v.xs[2]))
      \o ")"

\* The lambda for_each_in_tuple applies to member i (counted from 0)
tuple_member(e, i) == (IF i > 0 THEN "," ELSE "") \o prettyprint(AsConst(e))

RECURSIVE for_each_in_tuple(_, _)
for_each_in_tuple(xs, k) ==
  IF k = 0 THEN ""
  ELSE for_each_in_tuple(xs, k - 1) \o tuple_member(xs[k], k - 1)

output_tuple(v) == "(" \o for_each_in_tuple(v.xs, Len(v.xs)) \o ")"

\* std::for_each over positions from..Len(xs) of a container that is not
\* empty: separator and element, one after the other
RECURSIVE for_each_text(_, _, _)
for_each_text(T, xs, from) ==
  IF from > Len(xs) THEN ""
  ELSE iterable_separator(T) \o prettyprint(AsConst(xs[from]))
         \o for_each_text(T, xs, from + 1)

\* output_iterable on a container with at least one element (on an empty
\* one ++b leaves the range: the steps below model that case)
output_iterable(v) ==
  IF Len(v.xs) = 0 THEN "<undefined>"
  ELSE iterable_opener(iterable_arg(v.t)) \o prettyprint(AsConst(v.xs[1]))
         \o for_each_text(iterable_arg(v.t), v.xs, 2)
         \o iterable_closer(iterable_arg(v.t))

\* The text s << prettyprint(x) writes: the stringifier for x's type,
\* constructed from x and written with output()
prettyprint(v) ==
  LET sel == stringifier(v.t) IN
  CASE sel = "outputtable" -> output_outputtable(v)
    [] sel = "basic_string" -> output_basic_string(v)
    [] sel = "char*" -> output_char_pointer(v)
    [] sel = "char[N]" -> output_char_array(v)
    [] sel = "bool" -> output_bool(v)
    [] sel = "callable" -> output_callable(v)
    [] sel = "unprintable" -> output_unprintable(v)
    [] sel = "enum" -> output_enum(v)
    [] sel = "pair" -> output_pair(v)
    [] sel = "tuple" -> output_tuple(v)
    [] sel \in {"iterable", "T[N]"} -> output_iterable(v)
    [] OTHER -> output_default(v)

\* ---------------------------------------------------------------------------
\* The values the model formats

IntVals == (0..MaxInt) \cup {42}
EnumVals == (0..MaxEnum) \cup {65}
Strings == {"", "Hi", "a\"b"}

SeqsUpTo(S, lo, hi) == UNION {[1..k -> S] : k \in lo..hi}

Qualified(Ts) == Ts \cup {Const(T) : T \in Ts}

CharPtrTypes ==
  {Ty("charptr", c, a, <<>>) : c \in BOOLEAN, a \in {{}, {"pointee_const"}}}

EnumTypes ==
  Qualified({Ty("enum", FALSE, a \cup u \cup o, <<>>) :
               a \in {{}, {"scoped"}}, u \in {{}, {"char"}},
               o \in {{}, {"userout"}}})

\* Foo, Bar, Baz of the test program, a captureless lambda, a class with an
\* implicit conversion to bool, and a function object the program declares
\* a bind expression (std::is_bind_expression specialised)
ClassTypes ==
  Qualified({Ty("class", FALSE, a, <<>>) :
               a \in {{}, {"call"}, {"call", "userout"}, {"call", "boolconv"},
                      {"userout"}, {"boolconv"}, {"call", "bindspec"},
                      {"call", "boolconv", "bindspec"}}})

\* nullptr_t with the library's operator<<(nullptr_t) (C++17 on) or without;
\* wchar_t with the narrow stream's operator<< deleted (C++20 on) or not
LibraryTypes ==
  Qualified({Plain("nullptr_t"), Ty("nullptr_t", FALSE, {"lib_out"}, <<>>),
             Plain("wchar"), Ty("wchar", FALSE, {"lib_deleted"}, <<>>)})

\* extern int x0[]; extern const int x1[]: arrays of unknown bound; n stands
\* for where the array lies (what the array decays to)
UnknownBoundValues ==
  {Val(Ty("array_unknown", c, {}, <<IntT>>), n, "", <<>>) :
     c \in BOOLEAN, n \in IntVals}

ScalarValues ==
  {Val(T, n, "", <<>>) : T \in Qualified({IntT}), n \in IntVals}
    \cup {Val(T, n, "", <<>>) : T \in Qualified({BoolT}), n \in {0, 1}}
    \cup {Val(T, 0, s, <<>>) :
            T \in Qualified({StringT}) \cup CharPtrTypes
                    \cup Qualified({Plain("chararr")}),
            s \in Strings}
    \cup {Val(T, n, "", <<>>) : T \in EnumTypes, n \in EnumVals}
    \cup {Val(T, 1, "", <<>>) :
            T \in ClassTypes \cup LibraryTypes
                    \cup Qualified({Plain("funcptr"), Plain("std_function"),
                                    Plain("bind"), Plain("union")})
                    \cup {Plain("function")}}
    \cup UnknownBoundValues

\* Elements and members: values of a few types the recursion re-enters with
PartTypes == {IntT, BoolT, StringT, ConstCharPtrT, PairIntIntT, VectorIntT}

PartValues(T) ==
  CASE T = IntT -> {Val(T, n, "", <<>>) : n \in 0..MaxInt}
    [] T = BoolT -> {Val(T, n, "", <<>>) : n \in {0, 1}}
    [] T \in {StringT, ConstCharPtrT} ->
         {Val(T, 0, s, <<>>) : s \in {"Hi", "a\"b"}}
    [] T = PairIntIntT ->
         {Val(T, 0, "", <<Val(IntT, 1, "", <<>>), Val(IntT, n, "", <<>>)>>) :
            n \in {0, 2}}
    [] T = VectorIntT ->
         {Val(T, 0, "", xs) :
            xs \in {<<Val(IntT, 1, "", <<>>)>>,
                    <<Val(IntT, 2, "", <<>>), Val(IntT, 0, "", <<>>)>>}}

AllParts == UNION {PartValues(T) : T \in PartTypes}

\* vector<E> and deque<E> of 0..MaxLen elements, E[N] with N >= 1
ContainerValues ==
  UNION {
    {Val(Ty(k, c, {}, <<E>>), 0, "", xs) :
       k \in {"vector", "deque"}, c \in BOOLEAN,
       xs \in SeqsUpTo(PartValues(E), 0, MaxLen)}
    \cup
    {Val(Ty("array", c, {}, <<E>>), 0, "", xs) :
       c \in BOOLEAN, xs \in SeqsUpTo(PartValues(E), 1, MaxLen)}
    : E \in PartTypes}

\* A container the program defines an operator<< for (it writes Vec)
UserOutputContainers ==
  {Val(Ty(k, c, {"userout"}, <<IntT>>), 0, "", xs) :
     k \in {"vector", "deque"}, c \in BOOLEAN,
     xs \in SeqsUpTo(PartValues(IntT), 0, MaxLen)}

TypesOf(xs) == [i \in 1..Len(xs) |-> xs[i].t]

PairValues ==
  {Val(Ty("pair", c, {}, TypesOf(xs)), 0, "", xs) :
     c \in BOOLEAN, xs \in [1..2 -> AllParts]}

TupleValues ==
  {Val(Ty("tuple", c, {}, TypesOf(xs)), 0, "", xs) :
     c \in BOOLEAN, xs \in SeqsUpTo(AllParts, 0, MaxArity)}

Values ==
  ScalarValues \cup ContainerValues \cup UserOutputContainers
    \cup PairValues \cup TupleValues

\* ---------------------------------------------------------------------------
\* One formatting: oss << prettyprint(val) on a fresh stream
\*
\*   val    the argument of prettyprint
\*   tag    stringifier_tag of its type, once the stringifier is constructed
\*   sel    the stringifier_select specialisation constructed
\*   pc     call, constructed, ill_formed (the instantiation does not
\*          compile), first / advance / for_each (inside output_iterable),
\*          done, crashed, hung
\*   out    the characters written to the stream
\*   b, e   the iterators of output_iterable, as positions (e is one past
\*          the last element)
\*   reads  the positions dereferenced, in order
\*   seps   the number of separators written
\*   over   the number of reads beyond the end of the container
\*   temp   the argument is a temporary of the calling expression
\*   alive  the argument's lifetime has not ended
\*   stale  a value whose lifetime has ended was read

VARIABLES val, tag, sel, pc, out, b, e, reads, seps, over, temp, alive, stale

vars ==
  <<val, custom, tag, sel, pc, out, b, e, reads, seps, over, temp, alive,
    stale>>

\* The argument, the program's token specialisations and the argument's
\* lifetime: what the steps of a formatting leave as it is
arg == <<val, custom, temp, alive, stale>>

\* An array or a function is not passed as a temporary
CanBeTemporary(T) ==
  T.k \notin {"array", "array_unknown", "chararr", "function"}

\* The specialisations that keep the argument as const T& m_t; the others
\* copy it or keep nothing
holds_reference(S) ==
  S \in {"outputtable", "basic_string", "char[N]", "T[N]", "iterable",
         "pair", "tuple"}

\* The tokens output_iterable writes for val
val_opener == iterable_opener(iterable_arg(val.t))
val_closer == iterable_closer(iterable_arg(val.t))
val_separator == iterable_separator(iterable_arg(val.t))

Init ==
  /\ val \in Values
  /\ custom \in Customizations
  /\ temp \in (IF CanBeTemporary(val.t) THEN BOOLEAN ELSE {FALSE})
  /\ alive = TRUE
  /\ stale = FALSE
  /\ tag = ""
  /\ sel = ""
  /\ pc = "call"
  /\ out = ""
  /\ b = 0
  /\ e = 0
  /\ reads = <<>>
  /\ seps = 0
  /\ over = 0

\* prettyprint(T&& t): stringifier<std::remove_reference_t<T>> is selected
\* and constructed from t
prettyprint_call ==
  /\ pc = "call"
  /\ tag' = stringifier_tag(val.t)
  /\ sel' = stringifier_select(val.t, stringifier_tag(val.t))
  /\ pc' = IF Instantiates(val.t) THEN "constructed" ELSE "ill_formed"
  /\ UNCHANGED <<arg, out, b, e, reads, seps, over>>

\* operator<<(std::ostream&, const stringifier<T>&) for a specialisation
\* whose output() writes its text in one expression
Write(which, text) ==
  /\ pc = "constructed"
  /\ sel = which
  /\ alive \/ ~holds_reference(which)
  /\ out' = out \o text
  /\ pc' = "done"
  /\ UNCHANGED <<arg, tag, sel, b, e, reads, seps, over>>

write_default == Write("default", output_default(val))
write_outputtable == Write("outputtable", output_outputtable(val))
write_basic_string == Write("basic_string", output_basic_string(val))
write_char_pointer == Write("char*", output_char_pointer(val))
write_char_array == Write("char[N]", output_char_array(val))
write_bool == Write("bool", output_bool(val))
write_callable == Write("callable", output_callable(val))
write_unprintable == Write("unprintable", output_unprintable(val))
write_enum == Write("enum", output_enum(val))
write_pair == Write("pair", output_pair(val))
write_tuple == Write("tuple", output_tuple(val))

\* output_iterable, statement by statement.
\* s << iterable_opener<T>()(t); auto b = std::begin(t); auto e = std::end(t);
iterable_begin ==
  /\ pc = "constructed"
  /\ sel \in {"iterable", "T[N]"}
  /\ alive
  /\ out' = out \o val_opener
  /\ b' = 1
  /\ e' = Len(val.xs) + 1
  /\ pc' = "first"
  /\ UNCHANGED <<arg, tag, sel, reads, seps, over>>

\* if (b != e) s << prettyprint(*b);
iterable_first ==
  /\ pc = "first"
  /\ IF b # e
       THEN /\ out' = out \o prettyprint(AsConst(val.xs[b]))
            /\ reads' = Append(reads, b)
       ELSE UNCHANGED <<out, reads>>
  /\ pc' = "advance"
  /\ UNCHANGED <<arg, tag, sel, b, e, seps, over>>

\* ++b, the first argument of std::for_each, when b is not at the end
iterable_advance ==
  /\ pc = "advance"
  /\ b # e
  /\ b' = b + 1
  /\ pc' = "for_each"
  /\ UNCHANGED <<arg, tag, sel, out, e, reads, seps, over>>

\* ++b when b == e (the container is empty): incrementing a past-the-end
\* iterator is undefined.  A pointer-like iterator moves beyond the end, a
\* circular list's comes back to the end, a tree's increment never returns.
iterable_advance_at_end ==
  /\ pc = "advance"
  /\ b = e
  /\ \/ b' = b + 1 /\ pc' = "for_each"
     \/ b' = b /\ pc' = "for_each"
     \/ b' = b /\ pc' = "hung"
  /\ UNCHANGED <<arg, tag, sel, out, e, reads, seps, over>>

\* for_each_body with the separator written after the element instead of
\* before it (a variant used to check the properties below)
for_each_body_separator_last ==
  /\ pc = "for_each"
  /\ b # e
  /\ b <= Len(val.xs)
  /\ out' = out \o prettyprint(AsConst(val.xs[b])) \o val_separator
  /\ reads' = Append(reads, b)
  /\ seps' = seps + 1
  /\ b' = b + 1
  /\ UNCHANGED <<arg, tag, sel, pc, e, over>>

\* One round of std::for_each: s << iterable_separator<T>()(t) << prettyprint(e)
for_each_body ==
  /\ pc = "for_each"
  /\ b # e
  /\ b <= Len(val.xs)
  /\ out' = out \o val_separator \o prettyprint(AsConst(val.xs[b]))
  /\ reads' = Append(reads, b)
  /\ seps' = seps + 1
  /\ b' = b + 1
  /\ UNCHANGED <<arg, tag, sel, pc, e, over>>

\* A round of std::for_each with the iterator beyond the end: the read is
\* outside the container; it faults, or yields whatever the memory holds.
for_each_overrun ==
  /\ pc = "for_each"
  /\ b > e
  /\ \/ /\ pc' = "crashed"
        /\ UNCHANGED <<out, reads, seps, b, over>>
     \/ /\ over < MaxOverrun
        /\ \E g \in PartValues(val.t.args[1]) :
             out' = out \o val_separator \o prettyprint(AsConst(g))
        /\ reads' = Append(reads, b)
        /\ seps' = seps + 1
        /\ b' = b + 1
        /\ over' = over + 1
        /\ UNCHANGED pc
  /\ UNCHANGED <<arg, tag, sel, e>>

\* std::for_each ends at b == e: return s << iterable_closer<T>()(t);
iterable_end ==
  /\ pc = "for_each"
  /\ b = e
  /\ out' = out \o val_closer
  /\ pc' = "done"
  /\ UNCHANGED <<arg, tag, sel, b, e, reads, seps, over>>

\* The end of the full expression oss << prettyprint(x): a temporary
\* argument is destroyed
full_expression_end ==
  /\ pc = "done"
  /\ temp
  /\ alive
  /\ alive' = FALSE
  /\ UNCHANGED <<val, custom, temp, stale, tag, sel, pc, out, b, e, reads,
                 seps, over>>

Next ==
  \/ prettyprint_call
  \/ write_default
  \/ write_outputtable
  \/ write_basic_string
  \/ write_char_pointer
  \/ write_char_array
  \/ write_bool
  \/ write_callable
  \/ write_unprintable
  \/ write_enum
  \/ write_pair
  \/ write_tuple
  \/ iterable_begin
  \/ iterable_first
  \/ iterable_advance
  \/ iterable_advance_at_end
  \/ for_each_body
  \/ for_each_overrun
  \/ iterable_end
  \/ full_expression_end

Spec == Init /\ [][Next]_vars

\* ---------------------------------------------------------------------------
\* The stringifier kept beyond the expression that made it:
\* auto p = prettyprint(T(...)); oss << p;

\* The end of the full expression auto p = prettyprint(T(...)): the
\* temporary is destroyed, p is still to be written
initializer_end ==
  /\ pc = "constructed"
  /\ temp
  /\ alive
  /\ alive' = FALSE
  /\ UNCHANGED <<val, custom, temp, stale, tag, sel, pc, out, b, e, reads,
                 seps, over>>

\* The values the storage of the destroyed argument may be read as
Leftover(v) ==
  {g \in Values : g.t = v.t /\ (g.t.k \in {"vector", "deque"} => g.xs # <<>>)}

\* oss << p where m_t refers to the destroyed temporary: the read has no
\* defined outcome; the write ends abnormally or writes what the storage
\* holds by then
write_dangling ==
  /\ pc = "constructed"
  /\ ~alive
  /\ holds_reference(sel)
  /\ stale' = TRUE
  /\ \/ /\ pc' = "crashed"
        /\ UNCHANGED out
     \/ /\ \E g \in Leftover(val) : out' = out \o prettyprint(g)
        /\ pc' = "done"
  /\ UNCHANGED <<val, custom, temp, alive, tag, sel, b, e, reads, seps, over>>

NextStored ==
  \/ Next
  \/ initializer_end
  \/ write_dangling

SpecStored == Init /\ [][NextStored]_vars

\* ---------------------------------------------------------------------------
\* Vocabulary of the properties

Tags ==
  {"is_outputtable_tag", "is_callable_tag", "is_iterable_tag", "is_pair_tag",
   "is_tuple_tag", "is_enum_tag", "is_unprintable_tag", "void"}

CallableTexts ==
  {"<callable (std::function)>", "<callable (function)>",
   "<callable (bind expression)>", "<callable (function object)>"}

Quoted(str) == "\"" \o str \o "\""

BoolWord(n) == IF n # 0 THEN "true" ELSE "false"

\* txts[1] sep txts[2] sep ... sep txts[k]
RECURSIVE Joined(_, _, _)
Joined(txts, sep, k) ==
  CASE k = 0 -> ""
    [] k = 1 -> txts[1]
    [] OTHER -> Joined(txts, sep, k - 1) \o sep \o txts[k]

\* The text prettyprint gives for each element, reached as the traversal
\* reaches it (through the const container)
ElementTexts(v) == [i \in 1..Len(v.xs) |-> prettyprint(AsConst(v.xs[i]))]

\* The text prettyprint gives for each member value on its own
MemberTexts(v) == [i \in 1..Len(v.xs) |-> prettyprint(v.xs[i])]

InIterable == sel \in {"iterable", "T[N]"}

\* The category a tag and a type stand for, in the vocabulary of the
\* ordered category list
CategoryOf(TAG, T) ==
  CASE TAG = "is_unprintable_tag" ->
         IF std_is_null_pointer(T) THEN "null" ELSE "opaque"
    [] TAG = "is_callable_tag" ->
         IF is_std_function(T) THEN "wrapper"
         ELSE IF std_is_function(T) THEN "function" ELSE "callable"
    [] TAG = "is_outputtable_tag" -> "outputtable"
    [] TAG = "is_iterable_tag" -> "iterable"
    [] TAG = "is_pair_tag" -> "pair"
    [] TAG = "is_tuple_tag" -> "tuple"
    [] TAG = "is_enum_tag" -> "enum"
    [] OTHER -> "unknown"

\* The first category of the ordered list whose predicate holds for T
FirstInOrder(T) ==
  IF std_is_null_pointer(T) THEN "null"
  ELSE IF is_std_function(T) THEN "wrapper"
  ELSE IF std_is_function(T) THEN "function"
  ELSE IF std_is_enum(T) THEN "enum"
  ELSE IF is_outputtable(T) THEN "outputtable"
  ELSE IF is_callable(T) THEN "callable"
  ELSE IF is_iterable(T) THEN "iterable"
  ELSE IF is_pair(T) THEN "pair"
  ELSE IF is_tuple(T) THEN "tuple"
  ELSE IF std_is_union(T) \/ std_is_class(T) THEN "opaque"
  ELSE "unknown"

\* The tag the shape of a callable calls for; "" for what is no callable.
\* A function object with an operator<< of its own and no conversion to
\* bool is left out: the test program expects its operator<< to be used.
ShapeText(T) ==
  CASE T.k = "std_function" -> "<callable (std::function)>"
    [] T.k \in {"function", "funcptr"} -> "<callable (function)>"
    [] T.k = "bind" -> "<callable (bind expression)>"
    [] T.k = "class" /\ "bindspec" \in T.attrs -> "<callable (bind expression)>"
    [] T.k = "class" /\ "bindspec" \notin T.attrs /\ "call" \in T.attrs
         /\ ("userout" \notin T.attrs \/ "boolconv" \in T.attrs) ->
         "<callable (function object)>"
    [] OTHER -> ""

\* ---------------------------------------------------------------------------
\* Properties

\* C1: classification is total and single-valued: every type gets exactly
\* one tag, the renderer of that tag is well defined for the type (exactly
\* one callable_type / unprintable_type overload applies, never none and
\* never two), and a type that matches no predicate renders <unknown>.
C1_ClassificationTotal ==
  pc # "call" =>
    /\ tag \in Tags
    /\ (tag = "is_callable_tag" => Cardinality(callable_type(val.t)) = 1)
    /\ (tag = "is_unprintable_tag" => Cardinality(unprintable_type(val.t)) = 1)
    /\ pc # "ill_formed"
    /\ (tag = "void" /\ pc = "done" => out = "<unknown>")

\* C2: the category chosen for a type is the first one, in the order
\* null-pointer, function wrapper, raw function, enum, outputtable,
\* callable, iterable, pair, tuple, opaque aggregate, whose predicate holds;
\* so an enum or a null pointer with native output is not Outputtable.
C2_FirstMatchInOrder ==
  pc # "call" => CategoryOf(tag, val.t) = FirstInOrder(val.t)

\* C3: a type with a call operator and an implicit conversion to bool is
\* classified Callable and written as a callable tag, never through
\* operator<<, even where operator<< is usable for it.
C3_CallableBeatsOutput ==
  (has_call_operator(val.t) /\ has_bool_conversion(val.t) /\ pc # "call") =>
    /\ tag = "is_callable_tag"
    /\ sel = "callable"
    /\ (pc = "done" => out \in CallableTexts)

C3_Witness ==
  /\ pc = "done"
  /\ has_call_operator(val.t)
  /\ has_bool_conversion(val.t)
  /\ has_operator_output(val.t)
  /\ out = "<callable (function object)>"

C5_EmptyIterable ==
  (InIterable /\ Len(val.xs) = 0) =>
    /\ pc \notin {"crashed", "hung"}
    /\ b <= e
    /\ reads = <<>>
    /\ seps = 0
    /\ (pc = "done" => out = val_opener \o val_closer)

\* C6: a pair is written "(" first "," second ")" and a tuple "(" members
\* joined by "," ")", the empty tuple "()", each member as the text
\* prettyprint gives for that member value (a string member is quoted).
C6_PairTupleJoined ==
  (val.t.k \in {"pair", "tuple"} /\ pc = "done") =>
    out = "(" \o Joined(MemberTexts(val), ",", Len(val.xs)) \o ")"

\* C7: every string-like argument (std::string non-const, const or rvalue,
\* the four char pointer varieties, char[N] and const char[N]) is written
\* as a double quote, its characters unchanged, and a double quote.
C7_StringsQuoted ==
  (val.t.k \in {"string", "charptr", "chararr"} /\ pc = "done") =>
    out = Quoted(val.s)

\* C8: every bool, const or not, at the top level or as an element of a
\* container, is written as the word true or false, never as 1 or 0.
C8_BoolWords ==
  pc = "done" =>
    /\ (val.t.k = "bool" => out = BoolWord(val.n))
    /\ (InIterable /\ Len(val.xs) >= 1 /\ val.t.args[1] = BoolT =>
          out = val_opener
                  \o Joined([i \in 1..Len(val.xs) |-> BoolWord(val.xs[i].n)],
                            val_separator, Len(val.xs))
                  \o val_closer)

\* C9: every enumerator, of a plain or scoped enumeration, whatever its
\* underlying type and whether or not the type has an operator<<, is
\* written as its underlying integer value in decimal.
C9_EnumDecimal ==
  (val.t.k = "enum" /\ pc = "done") => out = ToDec(val.n)

\* C10: each callable shape is written as its own tag: std::function, raw
\* function or function pointer, bind expression, any other object with a
\* call operator; no callable takes the operator<< path or another shape's
\* tag.
C10_CallableShapes ==
  (ShapeText(val.t) # "" /\ pc = "done") =>
    /\ tag = "is_callable_tag"
    /\ out = ShapeText(val.t)

\* The placeholder of a value that belongs to no other category: a class
\* without call operator, operator<< or conversion to bool, a union, a
\* null pointer; "" for every other type
PlaceholderText(T) ==
  CASE T.k = "class" /\ T.attrs = {} -> "<class>"
    [] T.k = "union" -> "<union>"
    [] T.k = "nullptr_t" -> "<nullptr>"
    [] OTHER -> ""

\* C11: a class that belongs to no other category is written <class>, a
\* union <union> and a null pointer <nullptr>, through the unprintable
\* renderer, which keeps nothing of the value.
C11_OpaquePlaceholders ==
  (PlaceholderText(val.t) # "" /\ pc = "done") =>
    /\ sel = "unprintable"
    /\ out = PlaceholderText(val.t)

\* C14: an array of unknown bound is written <array (unknown bounds)>,
\* whatever its elements and wherever it lies: neither an element nor the
\* array's address reaches the stream.
C14_UnknownBoundPlaceholder ==
  (val.t.k = "array_unknown" /\ pc = "done") =>
    /\ out = "<array (unknown bounds)>"
    /\ reads = <<>>

\* C13: a type that has begin and end and an operator<< of its own is
\* classified Outputtable and written by that operator (a std::string
\* through the string renderer, which writes it with the same operator);
\* the iterable renderer never runs for it: no opener, separator or closer
\* is written and no element is visited.
C13_NativeOutputBeatsIteration ==
  (is_iterable(val.t) /\ has_operator_output(val.t) /\ pc # "call") =>
    /\ tag = "is_outputtable_tag"
    /\ sel \in {"outputtable", "basic_string"}
    /\ pc \in {"constructed", "done"}
    /\ reads = <<>>
    /\ seps = 0
    /\ (pc = "done" =>
          out = IF sel = "basic_string" THEN Quoted(NativeText(val))
                ELSE NativeText(val))

C13_Witness ==
  /\ pc = "done"
  /\ val.t.k = "vector"
  /\ "userout" \in val.t.attrs
  /\ Len(val.xs) = MaxLen
  /\ out = "Vec"

\* The type without its const qualifier, and the value seen as of that type
Unqualified(T) == [T EXCEPT !.c = FALSE]
AsNonConst(v) == [v EXCEPT !.t = Unqualified(v.t)]

\* C16: a const-qualified value gets the category and the text of the same
\* value without const; and an element of a container, which is reached
\* through a reference to const, is written as that element is when
\* formatted on its own.
C16_ConstSameResult ==
  (pc = "done" /\ ~(InIterable /\ Len(val.xs) = 0)) =>
    /\ (val.t.c =>
          /\ tag = stringifier_tag(Unqualified(val.t))
          /\ out = prettyprint(AsNonConst(val)))
    /\ (InIterable =>
          out = val_opener
                  \o Joined(MemberTexts(val), val_separator,
                            Len(val.xs))
                  \o val_closer)

\* The token of a container type for which the program declares tokens,
\* whether the value is const or not; the default for every other type
TokenFor(which, T) ==
  IF custom.k = T.k /\ custom.args \in {<<>>, T.args} /\ custom[which] # ""
    THEN custom[which]
  ELSE CASE which = "opener" -> "{"
         [] which = "closer" -> "}"
         [] OTHER -> ","

C15_NoDeadRead == ~stale

====
